---- MODULE Spec2Model ----
(***************************************************************************)
(* A model of ground_segmentation::ScanGroundFilterComponent               *)
(* (perception/ground_segmentation/src/scan_ground_filter_nodelet.cpp).    *)
(*                                                                         *)
(* Numbers.  Lengths are integers of one grid unit.  Angles are integers   *)
(* of half a degree, so that M_PI is 360 units and a full turn 720.  An    *)
(* angle that is the result of atan2 on grid values is kept as the vector  *)
(* it is the direction of, and every comparison of such angles is decided  *)
(* exactly on the vectors; a threshold angle enters a comparison by its    *)
(* tangent.  The one floating-point effect that is modelled is absorption: *)
(* a coordinate can be a negative value so small (field xneg) that adding  *)
(* it to any non-zero number returns that number.                          *)
(***************************************************************************)
EXTENDS Integers, Sequences, FiniteSets, TLC

VARIABLES
  \* member fields of the component (the configuration)
  global_slope_max_angle_rad_, local_slope_max_angle_rad_,
  radial_divider_angle_rad_, split_points_distance_tolerance_,
  split_height_distance_, use_virtual_ground_point_, radial_dividers_num_,
  \* member field set once by the constructor, from the vehicle-geometry provider
  vehicle_info_,
  \* what the parameter callback that has just returned gave ("none" otherwise)
  set_param_result,
  \* position of the filter callback
  pc,
  \* locals of filter / convertPointcloud / classifyPointCloud
  in_cloud, radial_ordered_points, radial_size, i, j, sweep,
  no_ground_indices, output,
  \* history: for each member field, the values the running frame has read
  used_cfg,
  \* history: the number of frames filter has returned from, up to
  \* MaxFramesCounted, in the specification that counts them (NotCounted in
  \* the others)
  frames_done

cfgVars == <<global_slope_max_angle_rad_, local_slope_max_angle_rad_,
             radial_divider_angle_rad_, split_points_distance_tolerance_,
             split_height_distance_, use_virtual_ground_point_,
             radial_dividers_num_>>

frameVars == <<in_cloud, radial_ordered_points, radial_size, i, j, sweep,
               no_ground_indices, output>>

\* what only the constructor and the return of filter set
onceVars == <<vehicle_info_, frames_done>>

vars == <<cfgVars, set_param_result, pc, frameVars, used_cfg, onceVars>>

(***************************************************************************)
(* Bounds of the model and values of the environment.                      *)
(***************************************************************************)
\* longest frame
MaxPoints == 3

\* longest frame during which another thread sets parameters
MaxRacePoints == 2

\* vehicle_info_.wheel_base_m, from the vehicle-geometry provider
wheel_base_m == 1

\* most frames counted in frames_done
MaxFramesCounted == 2

\* frames_done where the frames are not counted
NotCounted == MaxFramesCounted + 1

\* pi, in angle units (half degrees)
M_PI == 360

\* a size no allocation can have
HugeSize == 2147483647

\* what static_cast<size_t> of an infinite or negative value can produce (the
\* conversion is undefined: builds give 0 or a value near SIZE_MAX)
SizeOutcomes == {0, HugeSize}

\* a parameter value in degrees is given in half degrees, as the angles are
DegValues == [global_slope_max_angle_deg |-> {16, 90},
              local_slope_max_angle_deg  |-> {12, 90},
              radial_divider_angle_deg   |-> {1, 360, 0, -2}]

OtherValues == [split_points_distance_tolerance |-> {1},
                split_height_distance           |-> {2},
                use_virtual_ground_point        |-> {TRUE, FALSE}]

ParamNames == {"global_slope_max_angle_deg", "local_slope_max_angle_deg",
               "radial_divider_angle_deg", "split_points_distance_tolerance",
               "split_height_distance", "use_virtual_ground_point"}

ParamValues(name) ==
  IF name \in DOMAIN DegValues THEN DegValues[name] ELSE OtherValues[name]

\* the parameter lists a callback is given: one parameter set to one value
ParamLists == UNION {{[n \in {name} |-> v] : v \in ParamValues(name)} : name \in ParamNames}

\* the points of the input frames: on the x axis before and behind the
\* vehicle, and one with y = 1 and x a tiny negative value
PointDomain ==
  {[x |-> 2, y |-> 0, z |-> 0, xneg |-> FALSE], [x |-> 2, y |-> 0, z |-> 2, xneg |-> FALSE],
   [x |-> 3, y |-> 0, z |-> 0, xneg |-> FALSE], [x |-> 3, y |-> 0, z |-> 1, xneg |-> FALSE],
   [x |-> -2, y |-> 0, z |-> 0, xneg |-> FALSE], [x |-> 0, y |-> 1, z |-> 2, xneg |-> TRUE]}

Frames == UNION {[1..n -> PointDomain] : n \in 0..MaxPoints}

\* the frames during which another thread sets parameters
RaceFrames == UNION {[1..n -> PointDomain] : n \in 0..MaxRacePoints}

(***************************************************************************)
(* Arithmetic helpers.                                                     *)
(***************************************************************************)
Abs(n) == IF n < 0 THEN -n ELSE n

RECURSIVE Gcd(_, _)
Gcd(a, b) == IF b = 0 THEN a ELSE Gcd(b, a % b)

\* std::ceil(a / b) for b > 0
Ceil(a, b) == IF a % b = 0 THEN a \div b ELSE (a \div b) + 1

\* std::hypot(x, y): the inputs are chosen so that it is an integer
Hypot(x, y) == CHOOSE r \in 0..(Abs(x) + Abs(y)) : r * r = x * x + y * y

\* the tangent of a threshold angle, as <<numerator, denominator>>
Tan(a) == CASE a = 12 -> <<1051, 10000>>
            [] a = 16 -> <<1405, 10000>>
            [] a = 90 -> <<1, 1>>

\* the direction of (dx, dy) as a reduced vector: what std::atan2(dy, dx)
\* depends on.  atan2(0, dx) is 0 for dx >= 0, so these share one direction.
Direction(dy, dx) ==
  IF dy = 0 /\ dx >= 0 THEN [dy |-> 0, dx |-> 1]
  ELSE LET g == Gcd(Abs(dy), Abs(dx)) IN [dy |-> dy \div g, dx |-> dx \div g]

\* Atan2Exceeds with the comparison turned round
Atan2Exceeds_Below(dy, dx, a) == dy * Tan(a)[2] < dx * Tan(a)[1]

\* std::atan2(dy, dx) > a, for dx >= 0 and a threshold angle a in (0, 90) degrees
Atan2Exceeds(dy, dx, a) == dy * Tan(a)[2] > dx * Tan(a)[1]

\* std::atan2(u.dy, u.dx) - std::atan2(v.dy, v.dx) > a, for a in (0, 90) degrees
\* and v in the closed right half plane, by the cross and dot products of the
\* two directions
SlopeDiffExceeds(u0, v0, a) ==
  LET u == Direction(u0.dy, u0.dx)
      v == Direction(v0.dy, v0.dx)
      c == v.dx * u.dy - v.dy * u.dx
      d == v.dx * u.dx + v.dy * u.dy
  IN  IF u.dx >= 0
      THEN \/ d > 0 /\ c * Tan(a)[2] > d * Tan(a)[1]
           \/ d <= 0 /\ c > 0
           \/ d < 0 /\ c = 0 /\ u.dy > 0
      ELSE IF u.dy >= 0
      THEN ~(d > 0 /\ c * Tan(a)[2] <= d * Tan(a)[1])
      ELSE FALSE

\* tier4_autoware_utils::deg2rad: deg * pi / 180, the value in degrees being
\* given in half degrees
deg2rad(deg) == (deg * M_PI) \div (180 * 2)

\* static_cast<size_t>(std::ceil(2.0 * M_PI / rad)): the sector count; the
\* conversion of an infinite or negative value is undefined
DividersNums(rad) ==
  IF rad > 0 THEN {Ceil(2 * M_PI, rad)} ELSE SizeOutcomes

(***************************************************************************)
(* The constructor and the parameter callback.                             *)
(***************************************************************************)
NoReads == [n \in {"global", "local", "divider_angle", "dividers_num",
                   "tolerance", "split_height", "virtual"} |-> {}]

NoSweep == [prev_gnd_radius |-> 0, prev_gnd_slope |-> Direction(0, 1),
            ground_cluster |-> [radius_sum |-> 0, height_sum |-> 0, point_num |-> 0],
            non_ground_cluster |-> [radius_sum |-> 0, height_sum |-> 0, point_num |-> 0],
            prev_point_label |-> "INIT",
            prev_gnd_point |-> [x |-> 0, y |-> 0, z |-> 0]]

NoFrame ==
  /\ in_cloud = <<>>
  /\ radial_ordered_points = <<>>
  /\ radial_size = 0
  /\ i = 0
  /\ j = 0
  /\ sweep = NoSweep
  /\ no_ground_indices = <<>>
  /\ output = <<>>

Init ==
  /\ global_slope_max_angle_rad_ \in {deg2rad(v) : v \in DegValues.global_slope_max_angle_deg}
  /\ local_slope_max_angle_rad_ \in {deg2rad(v) : v \in DegValues.local_slope_max_angle_deg}
  /\ radial_divider_angle_rad_ \in {deg2rad(v) : v \in DegValues.radial_divider_angle_deg}
  /\ split_points_distance_tolerance_ \in OtherValues.split_points_distance_tolerance
  /\ split_height_distance_ \in OtherValues.split_height_distance
  /\ use_virtual_ground_point_ \in OtherValues.use_virtual_ground_point
  /\ radial_dividers_num_ \in DividersNums(radial_divider_angle_rad_)
  /\ set_param_result = "none"
  /\ pc = "idle"
  /\ vehicle_info_ = [wheel_base_m |-> wheel_base_m]
  /\ NoFrame
  /\ used_cfg = NoReads
  /\ frames_done = NotCounted

\* get_param(p, name, value): whether the list holds the parameter
get_param(p, name) == name \in DOMAIN p

onParameter(p) ==
  /\ global_slope_max_angle_rad_' =
       IF get_param(p, "global_slope_max_angle_deg")
       THEN deg2rad(p["global_slope_max_angle_deg"]) ELSE global_slope_max_angle_rad_
  /\ local_slope_max_angle_rad_' =
       IF get_param(p, "local_slope_max_angle_deg")
       THEN deg2rad(p["local_slope_max_angle_deg"]) ELSE local_slope_max_angle_rad_
  /\ IF get_param(p, "radial_divider_angle_deg")
     THEN /\ radial_divider_angle_rad_' = deg2rad(p["radial_divider_angle_deg"])
          /\ radial_dividers_num_' \in DividersNums(deg2rad(p["radial_divider_angle_deg"]))
     ELSE UNCHANGED <<radial_divider_angle_rad_, radial_dividers_num_>>
  /\ split_points_distance_tolerance_' =
       IF get_param(p, "split_points_distance_tolerance")
       THEN p["split_points_distance_tolerance"] ELSE split_points_distance_tolerance_
  /\ split_height_distance_' =
       IF get_param(p, "split_height_distance")
       THEN p["split_height_distance"] ELSE split_height_distance_
  /\ use_virtual_ground_point_' =
       IF get_param(p, "use_virtual_ground_point")
       THEN p["use_virtual_ground_point"] ELSE use_virtual_ground_point_
  /\ set_param_result' = "success"

(***************************************************************************)
(* convertPointcloud.                                                      *)
(***************************************************************************)
\* std::atan2(x, y) of a point on an axis, in angle units; tiny: the angle is
\* a negative value too small to change any non-zero number it is added to
atan2xy(pt) ==
  LET sx == IF pt.xneg THEN -1 ELSE pt.x IN
  CASE pt.y > 0 /\ sx = 0  -> [a |-> 0, tiny |-> FALSE]
    [] pt.y > 0 /\ pt.xneg -> [a |-> 0, tiny |-> TRUE]
    [] pt.y < 0 /\ sx = 0  -> [a |-> M_PI, tiny |-> FALSE]
    [] pt.y < 0 /\ pt.xneg -> [a |-> -M_PI, tiny |-> FALSE]
    [] pt.y = 0 /\ sx > 0  -> [a |-> M_PI \div 2, tiny |-> FALSE]
    [] pt.y = 0 /\ sx < 0  -> [a |-> -(M_PI \div 2), tiny |-> FALSE]
    [] OTHER                -> [a |-> 0, tiny |-> FALSE]

\* std::fmod(n, m) for m > 0: the remainder with the sign of n
Fmod(n, m) == IF n >= 0 THEN n % m ELSE -((-n) % m)

\* tier4_autoware_utils::normalizeRadian(rad, min_rad): into [min, min + 2 pi);
\* the sum of a tiny negative angle and 2 pi rounds to 2 pi
normalizeRadian(rad, min_rad) ==
  LET value == Fmod(rad.a, 2 * M_PI) IN
  IF rad.tiny THEN (IF min_rad < 0 THEN 0 ELSE 2 * M_PI)
  ELSE IF min_rad <= value /\ value < min_rad + 2 * M_PI THEN value
  ELSE IF value >= 0 THEN value - 2 * M_PI ELSE value + 2 * M_PI

\* tier4_autoware_utils::normalizeDegree(deg, min_deg) of the quotient
\* q.num / q.den (q.den > 0): into [min, min + 360)
normalizeDegree(q, min_deg) ==
  LET value == Fmod(q.num, 360 * q.den) IN
  IF min_deg * q.den <= value /\ value < (min_deg + 360) * q.den THEN [num |-> value, den |-> q.den]
  ELSE IF value >= 0 THEN [num |-> value - 360 * q.den, den |-> q.den]
  ELSE [num |-> value + 360 * q.den, den |-> q.den]

\* static_cast<size_t>(std::floor(normalizeDegree(theta / radial_divider_angle_rad_, 0.0)));
\* a division by zero gives no number, and its conversion no index of any array
RadialDiv(theta, divider_angle) ==
  IF divider_angle = 0 THEN HugeSize
  ELSE LET q == IF divider_angle > 0 THEN [num |-> theta, den |-> divider_angle]
                ELSE [num |-> -theta, den |-> -divider_angle]
           n == normalizeDegree(q, 0)
       IN  n.num \div n.den

\* the PointRef of input point k
MakePointRef(cloud, k, divider_angle) ==
  LET radius == Hypot(cloud[k].x, cloud[k].y)
      theta  == normalizeRadian(atan2xy(cloud[k]), 0)
  IN  [radius |-> radius, theta |-> theta,
       radial_div |-> RadialDiv(theta, divider_angle),
       point_state |-> "INIT", orig_index |-> k]

\* the PointRefs of all input points, in input order
PointRefs(cloud, divider_angle) ==
  [k \in 1..Len(cloud) |-> MakePointRef(cloud, k, divider_angle)]

\* the sector d after the loop of emplace_back: the refs k.. with radial_div d
RECURSIVE Sector(_, _, _)
Sector(refs, k, d) ==
  IF k > Len(refs) THEN <<>>
  ELSE (IF refs[k].radial_div = d THEN <<refs[k]>> ELSE <<>>) \o Sector(refs, k + 1, d)

\* the sequence s with e put before position n
InsertAt(s, n, e) == SubSeq(s, 1, n - 1) \o <<e>> \o SubSeq(s, n, Len(s))

\* what std::sort by radius can leave of the first n elements of a sector:
\* every arrangement in which the radius never decreases (the order of equal
\* radii is unspecified)
RECURSIVE SortOutcomes(_, _)
SortOutcomes(refs, n) ==
  IF n = 0 THEN {<<>>}
  ELSE {q \in UNION {{InsertAt(s, m, refs[n]) : m \in 1..n} : s \in SortOutcomes(refs, n - 1)} :
          \A a \in 1..(n - 1) : q[a].radius <= q[a + 1].radius}

\* the sectors after the loop of emplace_back, in input order: a function
\* from the indices of the non-empty sectors; a point whose radial_div is no
\* index of the array is in no sector
Binned(cloud, divider_angle, size) ==
  LET refs == PointRefs(cloud, divider_angle)
      used == {refs[k].radial_div : k \in 1..Len(cloud)} \cap 0..(size - 1)
  IN  [d \in used |-> Sector(refs, 1, d)]

\* whether some emplace_back is on an element outside the array
OutOfRange(cloud, divider_angle, size) ==
  \E k \in 1..Len(cloud) : MakePointRef(cloud, k, divider_angle).radial_div >= size

\* the results convertPointcloud can leave in out_radial_ordered_points
convertPointcloud(cloud, divider_angle, size) ==
  LET b == Binned(cloud, divider_angle, size) IN
  {f \in [DOMAIN b -> UNION {SortOutcomes(b[d], Len(b[d])) : d \in DOMAIN b}] :
     \A d \in DOMAIN b : f[d] \in SortOutcomes(b[d], Len(b[d]))}

(***************************************************************************)
(* PointsCentroid (the cluster accumulator) and the geometry helpers.      *)
(***************************************************************************)
\* PointsCentroid::initialize
initialize == [radius_sum |-> 0, height_sum |-> 0, point_num |-> 0]

\* PointsCentroid::addPoint
addPoint(c, radius, height) ==
  [radius_sum |-> c.radius_sum + radius, height_sum |-> c.height_sum + height,
   point_num |-> c.point_num + 1]

\* the averages are sum / point_num, and 0 while the cluster is empty: the
\* common denominator of getAverageRadius and getAverageHeight
AverageDen(c) == IF c.point_num = 0 THEN 1 ELSE c.point_num

\* PointsCentroid::getAverageSlope: atan2(height_avg, radius_avg)
getAverageSlope(c) == Direction(c.height_sum, c.radius_sum)

\* the square of tier4_autoware_utils::calcDistance3d
calcDistance3dSquared(a, b) ==
  (a.x - b.x) * (a.x - b.x) + (a.y - b.y) * (a.y - b.y) + (a.z - b.z) * (a.z - b.z)

\* IsPointCloseToPrev with the angle taken in degrees, not in radians
IsPointCloseToPrev_Degrees(distance_squared, radius, divider_angle, tolerance) ==
  LET rhs == radius * divider_angle + tolerance * 2 IN
  rhs > 0 /\ distance_squared * 2 * 2 < rhs * rhs

\* points_distance < radius * radial_divider_angle_rad_ + tolerance, the angle
\* being divider_angle * pi / 360 radians with 22 / 7 for pi
IsPointCloseToPrev(distance_squared, radius, divider_angle, tolerance) ==
  LET rhs == radius * divider_angle * 11 + tolerance * 1260 IN
  rhs > 0 /\ distance_squared * 1260 * 1260 < rhs * rhs

\* calcVirtualGroundOrigin
virtual_ground_point == [x |-> vehicle_info_.wheel_base_m, y |-> 0, z |-> 0]

init_ground_point == [x |-> 0, y |-> 0, z |-> 0]

(***************************************************************************)
(* classifyPointCloud: one iteration of the inner loop.                    *)
(***************************************************************************)
\* SectorLocals with prev_point_label starting as GROUND
SectorLocals_StartGround(old) ==
  [prev_gnd_radius |-> 0, prev_gnd_slope |-> Direction(0, 1),
   ground_cluster |-> initialize, non_ground_cluster |-> initialize,
   prev_point_label |-> "GROUND", prev_gnd_point |-> init_ground_point]

\* SectorLocals with prev_point_label declared outside the loop over sectors
SectorLocals_KeepLabel(old) ==
  [prev_gnd_radius |-> 0, prev_gnd_slope |-> Direction(0, 1),
   ground_cluster |-> initialize, non_ground_cluster |-> initialize,
   prev_point_label |-> old.prev_point_label, prev_gnd_point |-> init_ground_point]

\* the locals declared at the head of a sector's iteration, given the locals
\* the previous iteration left
SectorLocals(old) ==
  [prev_gnd_radius |-> 0, prev_gnd_slope |-> Direction(0, 1),
   ground_cluster |-> initialize, non_ground_cluster |-> initialize,
   prev_point_label |-> "INIT", prev_gnd_point |-> init_ground_point]

\* the j == 0 branch: the choice of the ground reference and the resets
FirstPointLocals(sw, pt, c) ==
  LET is_front_side == pt.x > virtual_ground_point.x
      gnd == IF c.virtual /\ is_front_side THEN virtual_ground_point ELSE init_ground_point
  IN  [sw EXCEPT !.prev_gnd_point = gnd,
                 !.prev_gnd_radius = Hypot(gnd.x, gnd.y),
                 !.prev_gnd_slope = Direction(0, 1),
                 !.ground_cluster = initialize,
                 !.non_ground_cluster = initialize]

\* Branch without the forced recomputation after a NON_GROUND point
Branch_NoRecompute(is_global, prev_point_label, obj_split, is_close, gnd_split) ==
  IF is_global THEN "global"
  ELSE IF is_close /\ ~gnd_split THEN "follow"
  ELSE "slope"

\* Branch with the closeness test ahead of the global slope test
Branch_FollowFirst(is_global, prev_point_label, obj_split, is_close, gnd_split) ==
  IF is_close /\ ~gnd_split THEN "follow"
  ELSE IF is_global THEN "global"
  ELSE IF prev_point_label = "NON_GROUND" /\ obj_split THEN "recompute"
  ELSE "slope"

\* which of the four branches of the classification decision is taken
Branch(is_global, prev_point_label, obj_split, is_close, gnd_split) ==
  IF is_global THEN "global"
  ELSE IF prev_point_label = "NON_GROUND" /\ obj_split THEN "recompute"
  ELSE IF is_close /\ ~gnd_split THEN "follow"
  ELSE "slope"

\* Resolve with every followed label taken for GROUND
Resolve_FollowGround(point_state, prev_point_label) ==
  IF point_state = "POINT_FOLLOW" /\ prev_point_label \in {"GROUND", "NON_GROUND"}
  THEN "GROUND" ELSE point_state

\* Resolve without the branch that follows a GROUND point
Resolve_NoGroundFollow(point_state, prev_point_label) ==
  IF point_state = "POINT_FOLLOW" /\ prev_point_label = "NON_GROUND" THEN "NON_GROUND"
  ELSE point_state

\* the label a POINT_FOLLOW point gets from the previous label
Resolve(point_state, prev_point_label) ==
  IF point_state = "POINT_FOLLOW" /\ prev_point_label = "NON_GROUND" THEN "NON_GROUND"
  ELSE IF point_state = "POINT_FOLLOW" /\ prev_point_label = "GROUND" THEN "GROUND"
  ELSE point_state

\* Push without the push of a point that follows a NON_GROUND point
Push_DirectOnly(pre, prev_point_label) == pre = "NON_GROUND"

\* whether the index of the point is appended to the output indices: its
\* label is NON_GROUND, or POINT_FOLLOW after a NON_GROUND point
Push(pre, prev_point_label) ==
  \/ pre = "NON_GROUND"
  \/ prev_point_label = "NON_GROUND" /\ pre = "POINT_FOLLOW"

\* The decision of one iteration (lines 137 to 174) for PointRef p (input
\* point pt), the distance to the previous point being given squared, with
\* locals sw and member fields c: the branch, the label before the follow
\* resolution and whether split_height_distance_ was read.
Decide(sw, p, pt, points_distance_squared, c) ==
  LET radius_distance_from_gnd == p.radius - sw.prev_gnd_radius
      height_from_gnd == pt.z - sw.prev_gnd_point.z
      nden == AverageDen(sw.non_ground_cluster)
      \* height_from_obj, times nden
      height_from_obj == pt.z * nden - sw.non_ground_cluster.height_sum
      is_point_close_to_prev ==
        IsPointCloseToPrev(points_distance_squared, p.radius, c.divider_angle, c.tolerance)
      is_global == Atan2Exceeds(pt.z, p.radius, c.global)
      branch == Branch(is_global, sw.prev_point_label,
                       Abs(height_from_obj) >= c.split_height * nden,
                       is_point_close_to_prev,
                       Abs(height_from_gnd) >= c.split_height)
      gden == AverageDen(sw.ground_cluster)
      \* (radius_distance_from_gnd, height_from_gnd) at the slope computation,
      \* times gden when taken from the ground cluster's averages
      slope_vec ==
        IF is_point_close_to_prev
        THEN [dy |-> pt.z * gden - sw.ground_cluster.height_sum,
              dx |-> p.radius * gden - sw.ground_cluster.radius_sum]
        ELSE [dy |-> height_from_gnd, dx |-> radius_distance_from_gnd]
  IN  [branch |-> branch,
       pre |-> IF branch = "global" THEN "NON_GROUND"
               ELSE IF branch = "follow" THEN "POINT_FOLLOW"
               ELSE IF SlopeDiffExceeds(slope_vec, sw.prev_gnd_slope, c.local)
                    THEN "NON_GROUND" ELSE "GROUND",
       split_read |-> ~is_global /\ (sw.prev_point_label = "NON_GROUND"
                                     \/ is_point_close_to_prev)]

\* Update with the clusters reset by the label after the follow resolution
Update_ResetOnLabel(sw, p, pt, pre) ==
  LET point_state == Resolve(pre, sw.prev_point_label)
      ground == point_state = "GROUND"
      gc == IF ground THEN initialize ELSE sw.ground_cluster
      ngc == IF ground THEN initialize ELSE sw.non_ground_cluster
      gc_added == addPoint(gc, p.radius, pt.z)
  IN  [prev_point_label |-> point_state,
       prev_gnd_radius |-> IF ground THEN p.radius ELSE sw.prev_gnd_radius,
       prev_gnd_point |-> IF ground THEN [x |-> pt.x, y |-> pt.y, z |-> pt.z]
                          ELSE sw.prev_gnd_point,
       ground_cluster |-> IF ground THEN gc_added ELSE gc,
       prev_gnd_slope |-> IF ground THEN getAverageSlope(gc_added) ELSE sw.prev_gnd_slope,
       non_ground_cluster |-> IF point_state = "NON_GROUND"
                              THEN addPoint(ngc, p.radius, pt.z) ELSE ngc]

\* Update with the ground reference radius set after every point
Update_RadiusAlways(sw, p, pt, pre) ==
  LET point_state == Resolve(pre, sw.prev_point_label)
      ground == point_state = "GROUND"
      gc == IF pre = "GROUND" THEN initialize ELSE sw.ground_cluster
      ngc == IF pre = "GROUND" THEN initialize ELSE sw.non_ground_cluster
      gc_added == addPoint(gc, p.radius, pt.z)
  IN  [prev_point_label |-> point_state,
       prev_gnd_radius |-> p.radius,
       prev_gnd_point |-> IF ground THEN [x |-> pt.x, y |-> pt.y, z |-> pt.z]
                          ELSE sw.prev_gnd_point,
       ground_cluster |-> IF ground THEN gc_added ELSE gc,
       prev_gnd_slope |-> IF ground THEN getAverageSlope(gc_added) ELSE sw.prev_gnd_slope,
       non_ground_cluster |-> IF point_state = "NON_GROUND"
                              THEN addPoint(ngc, p.radius, pt.z) ELSE ngc]

\* Update with the non-ground cluster never reset by a GROUND point
Update_KeepObjects(sw, p, pt, pre) ==
  LET point_state == Resolve(pre, sw.prev_point_label)
      ground == point_state = "GROUND"
      gc == IF pre = "GROUND" THEN initialize ELSE sw.ground_cluster
      gc_added == addPoint(gc, p.radius, pt.z)
  IN  [prev_point_label |-> point_state,
       prev_gnd_radius |-> IF ground THEN p.radius ELSE sw.prev_gnd_radius,
       prev_gnd_point |-> IF ground THEN [x |-> pt.x, y |-> pt.y, z |-> pt.z]
                          ELSE sw.prev_gnd_point,
       ground_cluster |-> IF ground THEN gc_added ELSE gc,
       prev_gnd_slope |-> IF ground THEN getAverageSlope(gc_added) ELSE sw.prev_gnd_slope,
       non_ground_cluster |-> IF point_state = "NON_GROUND"
                              THEN addPoint(sw.non_ground_cluster, p.radius, pt.z)
                              ELSE sw.non_ground_cluster]

\* The updates of one iteration (lines 176 to 204): the locals after a point
\* whose label before the follow resolution is pre
Update(sw, p, pt, pre) ==
  LET point_state == Resolve(pre, sw.prev_point_label)
      ground == point_state = "GROUND"
      gc == IF pre = "GROUND" THEN initialize ELSE sw.ground_cluster
      ngc == IF pre = "GROUND" THEN initialize ELSE sw.non_ground_cluster
      gc_added == addPoint(gc, p.radius, pt.z)
  IN  [prev_point_label |-> point_state,
       prev_gnd_radius |-> IF ground THEN p.radius ELSE sw.prev_gnd_radius,
       prev_gnd_point |-> IF ground THEN [x |-> pt.x, y |-> pt.y, z |-> pt.z]
                          ELSE sw.prev_gnd_point,
       ground_cluster |-> IF ground THEN gc_added ELSE gc,
       prev_gnd_slope |-> IF ground THEN getAverageSlope(gc_added) ELSE sw.prev_gnd_slope,
       non_ground_cluster |-> IF point_state = "NON_GROUND"
                              THEN addPoint(ngc, p.radius, pt.z) ELSE ngc]

\* One iteration for PointRef p (input point pt), the previous point of the
\* sector being prev_pt and first telling j == 0, with locals sw0 and the member
\* fields c.  Gives the locals after it, the label, whether the index is
\* pushed, the branch, the label before the follow resolution and the member
\* fields read.
ClassifyPoint(sw0, p, pt, prev_pt, first, c) ==
  LET sw == IF first THEN FirstPointLocals(sw0, pt, c) ELSE sw0
      d == Decide(sw, p, pt,
                  calcDistance3dSquared(pt, IF first THEN sw.prev_gnd_point ELSE prev_pt), c)
      point_state == Resolve(d.pre, sw.prev_point_label)
  IN  [sweep |-> Update(sw, p, pt, d.pre), point_state |-> point_state,
       push |-> Push(d.pre, sw.prev_point_label), branch |-> d.branch, pre |-> d.pre,
       reads |-> {"global", "local", "divider_angle", "tolerance"}
                 \cup (IF first THEN {"virtual"} ELSE {})
                 \cup (IF d.split_read THEN {"split_height"} ELSE {})]

(***************************************************************************)
(* The callbacks.  filter runs in steps: convertPointcloud, then one step  *)
(* for each iteration of the inner loop of classifyPointCloud, then        *)
(* extractObjectPoints, then the return.                                   *)
(***************************************************************************)
\* the member fields as one record
Cfg == [global |-> global_slope_max_angle_rad_,
        local |-> local_slope_max_angle_rad_,
        divider_angle |-> radial_divider_angle_rad_,
        dividers_num |-> radial_dividers_num_,
        tolerance |-> split_points_distance_tolerance_,
        split_height |-> split_height_distance_,
        virtual |-> use_virtual_ground_point_]

\* the history after reading the member fields named
Read(names) ==
  [n \in DOMAIN used_cfg |-> IF n \in names THEN used_cfg[n] \cup {Cfg[n]} ELSE used_cfg[n]]

\* NextSector for a loop that runs from the last sector down: the last
\* non-empty sector at the start (k = 0), the one before sector k - 1 after it
NextSector_Reverse(sectors, size, k) ==
  LET left == IF k = 0 THEN DOMAIN sectors ELSE {d \in DOMAIN sectors : d < k - 1} IN
  IF left = {} THEN size
  ELSE CHOOSE d \in left : \A e \in left : e <= d

\* the first non-empty sector at or after k, the size of the array if none
NextSector(sectors, size, k) ==
  IF \E d \in DOMAIN sectors : d >= k
  THEN CHOOSE d \in DOMAIN sectors : d >= k /\ \A e \in DOMAIN sectors : e >= k => d <= e
  ELSE size

\* EndFrame for sector containers and an index list that outlive the call
\* (members, or static locals)
EndFrame_KeepContainers ==
  /\ in_cloud' = <<>>
  /\ UNCHANGED <<radial_ordered_points, no_ground_indices>>
  /\ radial_size' = 0
  /\ i' = 0
  /\ j' = 0
  /\ sweep' = NoSweep
  /\ output' = <<>>

\* the locals of filter end
EndFrame ==
  /\ in_cloud' = <<>>
  /\ radial_ordered_points' = <<>>
  /\ radial_size' = 0
  /\ i' = 0
  /\ j' = 0
  /\ sweep' = NoSweep
  /\ no_ground_indices' = <<>>
  /\ output' = <<>>

\* the process is lost: an exception leaves the callback, or memory outside
\* the sector array was written
Undefined ==
  /\ pc' = "undefined"
  /\ EndFrame

\* filter up to the call of classifyPointCloud, and the head of its outer loop
FilterBegin(frame) ==
  /\ pc = "idle"
  /\ used_cfg' = Read({"dividers_num"} \cup (IF frame = <<>> THEN {} ELSE {"divider_angle"}))
  /\ set_param_result' = "none"
  /\ UNCHANGED <<cfgVars, onceVars>>
  /\ IF radial_dividers_num_ = HugeSize
     THEN \* resize throws
          Undefined
     ELSE \/ /\ OutOfRange(frame, radial_divider_angle_rad_, radial_dividers_num_)
             /\ Undefined
          \/ /\ in_cloud' = frame
             /\ radial_ordered_points' \in
                  convertPointcloud(frame, radial_divider_angle_rad_, radial_dividers_num_)
             /\ radial_size' = radial_dividers_num_
             /\ i' = NextSector(radial_ordered_points', radial_size', 0)
             /\ j' = 0
             /\ sweep' = SectorLocals(sweep)
             /\ no_ground_indices' = <<>>
             /\ output' = <<>>
             /\ pc' = IF i' < radial_size' THEN "classify" ELSE "extract"

\* one iteration of the inner loop, and the head of the next
ClassifyStep ==
  /\ pc = "classify"
  /\ LET p == radial_ordered_points[i][j + 1]
         pt == in_cloud[p.orig_index]
         prev_pt == IF j = 0 THEN pt ELSE in_cloud[radial_ordered_points[i][j].orig_index]
         r == ClassifyPoint(sweep, p, pt, prev_pt, j = 0, Cfg)
         last == j + 1 = Len(radial_ordered_points[i])
     IN  /\ radial_ordered_points' =
              [radial_ordered_points EXCEPT ![i][j + 1].point_state = r.point_state]
         /\ no_ground_indices' =
              IF r.push THEN Append(no_ground_indices, p.orig_index) ELSE no_ground_indices
         /\ i' = IF last THEN NextSector(radial_ordered_points, radial_size, i + 1) ELSE i
         /\ j' = IF last THEN 0 ELSE j + 1
         /\ sweep' = IF last THEN SectorLocals(r.sweep) ELSE r.sweep
         /\ pc' = IF i' < radial_size THEN "classify" ELSE "extract"
         /\ used_cfg' = Read(r.reads)
  /\ UNCHANGED <<cfgVars, set_param_result, in_cloud, radial_size, output, onceVars>>

\* extractObjectPoints, and the assignment of the output message
FilterEnd ==
  /\ pc = "extract"
  /\ output' = [k \in 1..Len(no_ground_indices) |-> in_cloud[no_ground_indices[k]]]
  /\ pc' = "done"
  /\ UNCHANGED <<cfgVars, set_param_result, in_cloud, radial_ordered_points,
                 radial_size, i, j, sweep, no_ground_indices, used_cfg, onceVars>>

\* the return of filter: its locals end
FilterReturn ==
  /\ pc = "done"
  /\ pc' = "idle"
  /\ EndFrame
  /\ used_cfg' = NoReads
  /\ frames_done' = IF frames_done < MaxFramesCounted THEN frames_done + 1 ELSE frames_done
  /\ UNCHANGED <<cfgVars, set_param_result, vehicle_info_>>

\* the parameter callback, run between two frames
SetParameter(p) ==
  /\ pc = "idle"
  /\ onParameter(p)
  /\ UNCHANGED <<pc, frameVars, used_cfg, onceVars>>

\* the parameter callback, run by another thread while filter is between
\* convertPointcloud and the end of the loops of classifyPointCloud
SetParameterDuringFilter(p) ==
  /\ pc = "classify"
  /\ onParameter(p)
  /\ UNCHANGED <<pc, frameVars, used_cfg, onceVars>>

Next ==
  \/ \E frame \in Frames : FilterBegin(frame)
  \/ ClassifyStep
  \/ FilterEnd
  \/ FilterReturn
  \/ \E p \in ParamLists : SetParameter(p)

\* the callbacks one at a time
Spec == Init /\ [][Next]_vars

NextConcurrent ==
  \/ \E frame \in RaceFrames : FilterBegin(frame)
  \/ ClassifyStep
  \/ FilterEnd
  \/ FilterReturn
  \/ \E p \in ParamLists : SetParameter(p)
  \/ \E p \in ParamLists : SetParameterDuringFilter(p)

\* the parameter callback on a thread of its own: no lock is taken by filter
\* or by onParameter
SpecConcurrent == Init /\ [][NextConcurrent]_vars

(***************************************************************************)
(* The component with its default parameters, fed frames of the spec's     *)
(* scenarios; the frames it has returned from are counted.  Lengths are in *)
(* units of 0.1 m here, so that the default tolerance and split height of  *)
(* 0.2 m are 2 units.                                                      *)
(***************************************************************************)
\* points of the flat-plane scenario
FlatPlanePoints == 20

\* wheel bases of 0.8 m and 2.8 m
WheelBases == {8, 28}

\* the point at radius r and height z on the x axis, before (s = 1) or behind
\* (s = -1) the vehicle
ScenarioPoint(r, z, s) == [x |-> s * r, y |-> 0, z |-> z, xneg |-> FALSE]

\* n colinear points at radius 1 m, 2 m, ... with z = 0
FlatPlane(n, s) == [k \in 1..n |-> ScenarioPoint(10 * k, 0, s)]

\* ground points at radius 1 .. 5 m, then a point at radius 5.1 m with z = 1 m
Wall(s) == FlatPlane(5, s) \o <<ScenarioPoint(51, 10, s)>>

Reversed(f) == [k \in 1..Len(f) |-> f[Len(f) + 1 - k]]

FlatPlanes == {FlatPlane(n, s) : n \in 1..FlatPlanePoints, s \in {1, -1}}

Walls == {Wall(s) : s \in {1, -1}} \cup {Reversed(Wall(s)) : s \in {1, -1}}

ScenarioFrames == FlatPlanes \cup Walls \cup Frames

\* the constructor with the defaults of declare_parameter: 8, 6 and 1 degrees
\* (in half degrees), 0.2 m and 0.2 m; use_virtual_ground_point and the wheel
\* base as the environment gives them
InitScenario ==
  /\ global_slope_max_angle_rad_ = deg2rad(16)
  /\ local_slope_max_angle_rad_ = deg2rad(12)
  /\ radial_divider_angle_rad_ = deg2rad(2)
  /\ split_points_distance_tolerance_ = 2
  /\ split_height_distance_ = 2
  /\ use_virtual_ground_point_ \in OtherValues.use_virtual_ground_point
  /\ radial_dividers_num_ \in DividersNums(radial_divider_angle_rad_)
  /\ set_param_result = "none"
  /\ pc = "idle"
  /\ vehicle_info_ \in {[wheel_base_m |-> w] : w \in WheelBases}
  /\ NoFrame
  /\ used_cfg = NoReads
  /\ frames_done = 0

NextScenario ==
  \/ \E frame \in ScenarioFrames : FilterBegin(frame)
  \/ ClassifyStep
  \/ FilterEnd
  \/ FilterReturn

\* frame after frame with an unchanged configuration
SpecScenario == InitScenario /\ [][NextScenario]_vars

(***************************************************************************)
(* The claims.                                                             *)
(***************************************************************************)
\* the loops of classifyPointCloud have ended
Swept == pc \in {"extract", "done"}

\* the sectors hold the frame
SectorsFilled == pc \in {"classify", "extract", "done"}

\* the places <<d, n>> of the PointRefs in the sectors
Places == UNION {{<<d, n>> : n \in 1..Len(radial_ordered_points[d])} :
                   d \in DOMAIN radial_ordered_points}

RefAt(pl) == radial_ordered_points[pl[1]][pl[2]]

Resolved(label) == label \in {"GROUND", "NON_GROUND"}

\* the PointRef is swept already
Processed(pl) == RefAt(pl).point_state # "INIT"

\* C1 as stated: after classifyPointCloud every point is GROUND or NON_GROUND
\* except a sector's very first point; at most one point of a sector stays
\* unresolved.
C1_OnlyFirstUnresolved ==
  Swept => \A pl \in Places : Resolved(RefAt(pl).point_state) \/ pl[2] = 1

\* C1 amended: after classifyPointCloud every point is GROUND or NON_GROUND,
\* except the points of a sector's leading run of POINT_FOLLOW points: a point
\* stays POINT_FOLLOW only if it is the first of its sector or the point
\* before it stayed POINT_FOLLOW, and then every earlier point of the sector did.
C1_UnresolvedLeadingRun ==
  Swept => \A pl \in Places :
             \/ Resolved(RefAt(pl).point_state)
             \/ /\ RefAt(pl).point_state = "POINT_FOLLOW"
                /\ \A m \in 1..(pl[2] - 1) : RefAt(<<pl[1], m>>).point_state = "POINT_FOLLOW"

\* a sector whose first two points stay unresolved and whose third is labelled
C1_Witness ==
  /\ Swept
  /\ \E d \in DOMAIN radial_ordered_points :
       /\ Len(radial_ordered_points[d]) >= 3
       /\ radial_ordered_points[d][1].point_state = "POINT_FOLLOW"
       /\ radial_ordered_points[d][2].point_state = "POINT_FOLLOW"
       /\ Resolved(radial_ordered_points[d][3].point_state)

\* C2: every swept point whose global slope atan2(z, radius) exceeds
\* global_slope_max_angle is NON_GROUND and its index is in the output indices.
C2_GlobalSlopeOverride ==
  SectorsFilled => \A pl \in Places :
    (Processed(pl) /\ Atan2Exceeds(in_cloud[RefAt(pl).orig_index].z, RefAt(pl).radius,
                                   global_slope_max_angle_rad_))
    => /\ RefAt(pl).point_state = "NON_GROUND"
       /\ \E k \in 1..Len(no_ground_indices) : no_ground_indices[k] = RefAt(pl).orig_index

\* a point over the global slope limit that is labelled after a GROUND point
\* it is close to, within split_height_distance of the ground reference
C2_Witness ==
  /\ Swept
  /\ \E pl \in Places :
       /\ pl[2] > 1
       /\ RefAt(<<pl[1], pl[2] - 1>>).point_state = "GROUND"
       /\ RefAt(pl).point_state = "NON_GROUND"
       /\ Atan2Exceeds(in_cloud[RefAt(pl).orig_index].z, RefAt(pl).radius,
                       global_slope_max_angle_rad_)
       /\ Abs(in_cloud[RefAt(pl).orig_index].z
              - in_cloud[RefAt(<<pl[1], pl[2] - 1>>).orig_index].z) < split_height_distance_

\* C3 as stated: an angular resolution of 0 or less is rejected: it is never
\* the stored value when a callback has reported success, nor while or after a
\* frame is processed.
C3_ConfigRejection ==
  (set_param_result = "success" \/ pc # "idle") => radial_divider_angle_rad_ > 0

\* C4 as stated: all points of one frame are binned and classified with one
\* value of each member field.
C4_FrameSnapshot ==
  \A n \in DOMAIN used_cfg : Cardinality(used_cfg[n]) <= 1

\* C5 as stated: each sector is ordered by ascending radius, and points of
\* equal radius keep their input order.
C5_StableSort ==
  SectorsFilled => \A d \in DOMAIN radial_ordered_points :
    \A a, b \in 1..Len(radial_ordered_points[d]) :
      a < b => \/ radial_ordered_points[d][a].radius < radial_ordered_points[d][b].radius
               \/ /\ radial_ordered_points[d][a].radius = radial_ordered_points[d][b].radius
                  /\ radial_ordered_points[d][a].orig_index < radial_ordered_points[d][b].orig_index

\* The iteration of the inner loop for the n-th PointRef of refs when the
\* sector refs is swept on its own with member fields c: the locals start as
\* declared at the head of the outer loop's body.
RECURSIVE SweepAlone(_, _, _, _)
SweepAlone(refs, cloud, n, c) ==
  LET pt == cloud[refs[n].orig_index] IN
  IF n = 1
  THEN ClassifyPoint(SectorLocals(NoSweep), refs[n], pt, pt, TRUE, c)
  ELSE ClassifyPoint(SweepAlone(refs, cloud, n - 1, c).sweep, refs[n], pt,
                     cloud[refs[n - 1].orig_index], FALSE, c)

\* the iteration for the PointRef at a place, its sector swept on its own
AloneAt(pl) == SweepAlone(radial_ordered_points[pl[1]], in_cloud, pl[2], Cfg)

\* C6: the labels of a sector's points in a multi-sector frame are the labels
\* the sector gets when swept alone, and at the head of every sector the sweep
\* locals (ground reference, slope, previous label, both accumulators) are the
\* initial ones.
C6_SectorIndependence ==
  /\ Swept => \A pl \in Places : RefAt(pl).point_state = AloneAt(pl).point_state
  /\ (pc = "classify" /\ j = 0) => sweep = SectorLocals(NoSweep)

\* a frame of two sectors: the one swept first ends on a labelled point that
\* built an accumulator, the other starts with a point that stays POINT_FOLLOW
C6_Witness ==
  /\ Swept
  /\ \E d1, d2 \in DOMAIN radial_ordered_points :
       /\ d1 < d2
       /\ Resolved(radial_ordered_points[d1][Len(radial_ordered_points[d1])].point_state)
       /\ radial_ordered_points[d2][1].point_state = "POINT_FOLLOW"

\* the places that hold input point k
PlacesOf(k) == {pl \in Places : RefAt(pl).orig_index = k}

\* C7 as stated: for an angular resolution above 0 every input point is in
\* exactly one sector, its sector index is in 0 .. sector_count - 1 with
\* sector_count = ceil(2 pi / angular_resolution) the size of the sector
\* array, and no frame leaves the array.
C7_SectorIndexInRange ==
  radial_divider_angle_rad_ > 0 =>
    /\ pc # "undefined"
    /\ SectorsFilled =>
         /\ radial_size = Ceil(2 * M_PI, radial_divider_angle_rad_)
         /\ \A k \in 1..Len(in_cloud) :
              /\ Cardinality(PlacesOf(k)) = 1
              /\ \A pl \in PlacesOf(k) :
                   /\ RefAt(pl).radial_div = pl[1]
                   /\ 0 <= pl[1] /\ pl[1] < radial_size

\* C8 as stated: for an angular resolution above 0 the sector index of every
\* point with theta in [0, 2 pi) is floor(theta / angular_resolution), and two
\* points in one sector have the same floor(theta / angular_resolution).
C8_SectorIndexFormula ==
  (SectorsFilled /\ radial_divider_angle_rad_ > 0) =>
    \A pl \in Places :
      RefAt(pl).theta < 2 * M_PI =>
        /\ pl[1] = RefAt(pl).theta \div radial_divider_angle_rad_
        /\ \A n \in 1..Len(radial_ordered_points[pl[1]]) :
             RefAt(<<pl[1], n>>).theta < 2 * M_PI =>
               RefAt(<<pl[1], n>>).theta \div radial_divider_angle_rad_
                 = RefAt(pl).theta \div radial_divider_angle_rad_

\* C9: the original index of a point is in the non-ground index list if and
\* only if the point's label is NON_GROUND, no index is listed twice, and
\* every listed index is the index of a point of the frame.
C9_OutputMembership ==
  SectorsFilled =>
    /\ \A pl \in Places :
         (\E k \in 1..Len(no_ground_indices) : no_ground_indices[k] = RefAt(pl).orig_index)
         <=> RefAt(pl).point_state = "NON_GROUND"
    /\ \A a, b \in 1..Len(no_ground_indices) :
         a # b => no_ground_indices[a] # no_ground_indices[b]
    /\ \A k \in 1..Len(no_ground_indices) : PlacesOf(no_ground_indices[k]) # {}

\* a swept frame with a point listed because its POINT_FOLLOW resolved after
\* a NON_GROUND point, and a point that ends GROUND or unresolved
C9_Witness ==
  /\ Swept
  /\ \E pl \in Places :
       /\ AloneAt(pl).pre = "POINT_FOLLOW"
       /\ RefAt(pl).point_state = "NON_GROUND"
       /\ \E k \in 1..Len(no_ground_indices) : no_ground_indices[k] = RefAt(pl).orig_index
  /\ \E pl \in Places : RefAt(pl).point_state \in {"GROUND", "POINT_FOLLOW"}

\* the place of the point at position k of the non-ground index list
PlaceOfIndex(k) == CHOOSE pl \in Places : RefAt(pl).orig_index = no_ground_indices[k]

\* C10: the non-ground index list is ordered by ascending sector index and,
\* within a sector, by ascending radius (by the position in the sorted
\* sector), and point k of the extracted sequence is the input point at the
\* k-th index.
C10_OutputOrdering ==
  /\ SectorsFilled =>
       \A a, b \in 1..Len(no_ground_indices) :
         a < b => \/ PlaceOfIndex(a)[1] < PlaceOfIndex(b)[1]
                  \/ /\ PlaceOfIndex(a)[1] = PlaceOfIndex(b)[1]
                     /\ PlaceOfIndex(a)[2] < PlaceOfIndex(b)[2]
                     /\ RefAt(PlaceOfIndex(a)).radius <= RefAt(PlaceOfIndex(b)).radius
  /\ pc = "done" =>
       /\ Len(output) = Len(no_ground_indices)
       /\ \A k \in 1..Len(output) : output[k] = in_cloud[no_ground_indices[k]]

\* an extracted sequence that is not in input order: a later input point
\* comes first because its sector does, and another because its radius does
C10_Witness ==
  /\ pc = "done"
  /\ \E a, b \in 1..Len(no_ground_indices) :
       /\ a < b
       /\ no_ground_indices[a] > no_ground_indices[b]
       /\ PlaceOfIndex(a)[1] < PlaceOfIndex(b)[1]
       /\ output[a] = in_cloud[no_ground_indices[a]]

\* the places whose point the sweep of its sector alone puts in the output
FreshPlaces == {pl \in Places : AloneAt(pl).push}

\* place a is swept before place b
Before(a, b) == a[1] < b[1] \/ (a[1] = b[1] /\ a[2] < b[2])

\* the output of the frame computed from nothing but the frame, the member
\* fields and the order std::sort gave the sectors
FreshOutput ==
  LET fresh == FreshPlaces
      at(k) == CHOOSE pl \in fresh : Cardinality({q \in fresh : Before(q, pl)}) = k - 1
  IN  [k \in 1..Cardinality(fresh) |-> in_cloud[RefAt(at(k)).orig_index]]

\* C11: between two frames the sector containers and the index list are
\* empty, and the output of a frame is the output computed from the frame and
\* the configuration alone, however many frames were processed before it.
C11_NoCrossFrameMemory ==
  /\ pc = "idle" => NoFrame
  /\ pc = "done" => output = FreshOutput

\* a non-empty output of a frame processed after MaxFramesCounted others
C11_Witness ==
  /\ pc = "done"
  /\ frames_done = MaxFramesCounted
  /\ output # <<>>
  /\ output = FreshOutput

\* the first point of a sector is before the virtual ground origin, the
\* origin is in use and the point is close to it: the point takes the follow
\* branch with no previous label to follow
FirstFollowsVirtualOrigin(pl) ==
  LET pt == in_cloud[RefAt(pl).orig_index] IN
  /\ pl[2] = 1
  /\ use_virtual_ground_point_
  /\ pt.x > virtual_ground_point.x
  /\ Abs(pt.z) < split_height_distance_
  /\ IsPointCloseToPrev(calcDistance3dSquared(pt, virtual_ground_point), RefAt(pl).radius,
                        radial_divider_angle_rad_, split_points_distance_tolerance_)

\* all points of the frame are in the sectors, in one sector
OneSector ==
  /\ Cardinality(Places) = Len(in_cloud)
  /\ Cardinality(DOMAIN radial_ordered_points) = 1

\* C12 as stated: of colinear points at radius 1 m, 2 m, ... with z = 0 in one
\* sector, under the default parameters, every point is GROUND, the first one
\* too whichever ground reference is chosen, and the output is empty.
C12_FlatPlaneAllGround ==
  (Swept /\ in_cloud \in FlatPlanes) =>
    /\ OneSector
    /\ \A pl \in Places : RefAt(pl).point_state = "GROUND"
    /\ no_ground_indices = <<>>
    /\ pc = "done" => output = <<>>

\* C12 amended: every point is GROUND and the output is empty, except that the
\* first point stays unresolved (POINT_FOLLOW) exactly when the virtual ground
\* origin is its ground reference and it is close to that origin.
C12_FlatPlaneGroundAfterFirst ==
  (Swept /\ in_cloud \in FlatPlanes) =>
    /\ OneSector
    /\ \A pl \in Places :
         RefAt(pl).point_state =
           IF FirstFollowsVirtualOrigin(pl) THEN "POINT_FOLLOW" ELSE "GROUND"
    /\ no_ground_indices = <<>>
    /\ pc = "done" => output = <<>>

\* the flat plane of FlatPlanePoints points before the vehicle, processed:
\* the first point unresolved, the others GROUND
C12_Witness ==
  /\ pc = "done"
  /\ in_cloud = FlatPlane(FlatPlanePoints, 1)
  /\ \E d \in DOMAIN radial_ordered_points :
       /\ Len(radial_ordered_points[d]) = FlatPlanePoints
       /\ radial_ordered_points[d][1].point_state = "POINT_FOLLOW"
       /\ \A n \in 2..FlatPlanePoints : radial_ordered_points[d][n].point_state = "GROUND"

\* C13 as stated: of ground points at radius 1 .. 5 m with z = 0 and a point
\* at radius 5.1 m with z = 1 m in one sector, the first five are GROUND, the
\* last is NON_GROUND and the output indices are exactly its original index.
C13_WallScenario ==
  (Swept /\ in_cloud \in Walls) =>
    /\ OneSector
    /\ \A pl \in Places :
         RefAt(pl).point_state =
           IF in_cloud[RefAt(pl).orig_index].z = 0 THEN "GROUND" ELSE "NON_GROUND"
    /\ Len(no_ground_indices) = 1
    /\ in_cloud[no_ground_indices[1]].z # 0

\* C13 amended: as stated, except that the point at 1 m stays unresolved
\* (POINT_FOLLOW) exactly when the virtual ground origin is its ground
\* reference and it is close to that origin.
C13_WallAfterFirst ==
  (Swept /\ in_cloud \in Walls) =>
    /\ OneSector
    /\ \A pl \in Places :
         RefAt(pl).point_state =
           IF in_cloud[RefAt(pl).orig_index].z # 0 THEN "NON_GROUND"
           ELSE IF FirstFollowsVirtualOrigin(pl) THEN "POINT_FOLLOW" ELSE "GROUND"
    /\ Len(no_ground_indices) = 1
    /\ in_cloud[no_ground_indices[1]].z # 0
    /\ pc = "done" => output = <<in_cloud[no_ground_indices[1]]>>

\* the wall frame given farthest point first, processed: the wall point is
\* input point 1, swept last and alone in the output
C13_Witness ==
  /\ pc = "done"
  /\ in_cloud = Reversed(Wall(1))
  /\ no_ground_indices = <<1>>
  /\ \E d \in DOMAIN radial_ordered_points :
       /\ radial_ordered_points[d][1].point_state = "GROUND"
       /\ radial_ordered_points[d][Len(in_cloud)].orig_index = 1
       /\ radial_ordered_points[d][Len(in_cloud)].point_state = "NON_GROUND"

(***************************************************************************)
(* The quantities of one iteration, recomputed for a place from the frame, *)
(* the member fields and the sweep of the sector up to the place.          *)
(***************************************************************************)
PointAt(pl) == in_cloud[RefAt(pl).orig_index]

\* the locals at the classification decision of the place: after the j == 0
\* branch for the first place of a sector, after the iteration before otherwise
SweepBefore(pl) ==
  IF pl[2] = 1 THEN FirstPointLocals(SectorLocals(NoSweep), PointAt(pl), Cfg)
  ELSE AloneAt(<<pl[1], pl[2] - 1>>).sweep

\* the locals after the iteration of the place
SweepAfter(pl) == AloneAt(pl).sweep

PrevLabel(pl) == SweepBefore(pl).prev_point_label

\* global_slope > global_slope_max_angle
IsGlobal(pl) == Atan2Exceeds(PointAt(pl).z, RefAt(pl).radius, global_slope_max_angle_rad_)

\* is_point_close_to_prev
IsClose(pl) ==
  LET prev == IF pl[2] = 1 THEN SweepBefore(pl).prev_gnd_point
              ELSE PointAt(<<pl[1], pl[2] - 1>>)
  IN  IsPointCloseToPrev(calcDistance3dSquared(PointAt(pl), prev), RefAt(pl).radius,
                         radial_divider_angle_rad_, split_points_distance_tolerance_)

\* |height_from_gnd| >= split_height_distance, at the decision
GndSplit(pl) == Abs(PointAt(pl).z - SweepBefore(pl).prev_gnd_point.z) >= split_height_distance_

\* |height_from_obj| >= split_height_distance
ObjSplit(pl) ==
  LET ngc == SweepBefore(pl).non_ground_cluster IN
  Abs(PointAt(pl).z * AverageDen(ngc) - ngc.height_sum) >= split_height_distance_ * AverageDen(ngc)

\* the point is forced to a slope computation after an object
RecomputeCase(pl) == ~IsGlobal(pl) /\ PrevLabel(pl) = "NON_GROUND" /\ ObjSplit(pl)

\* the point takes the follow branch
FollowCase(pl) == ~IsGlobal(pl) /\ ~RecomputeCase(pl) /\ IsClose(pl) /\ ~GndSplit(pl)

\* local_slope - prev_gnd_slope > local_slope_max_angle, were it computed
LocalSlopeExceeds(pl) ==
  LET sw == SweepBefore(pl)
      gden == AverageDen(sw.ground_cluster)
      vec == IF IsClose(pl)
             THEN [dy |-> PointAt(pl).z * gden - sw.ground_cluster.height_sum,
                   dx |-> RefAt(pl).radius * gden - sw.ground_cluster.radius_sum]
             ELSE [dy |-> PointAt(pl).z - sw.prev_gnd_point.z,
                   dx |-> RefAt(pl).radius - sw.prev_gnd_radius]
  IN  SlopeDiffExceeds(vec, sw.prev_gnd_slope, local_slope_max_angle_rad_)

\* C14: a point that takes the follow branch ends NON_GROUND if the previous
\* label is NON_GROUND and GROUND if it is GROUND, and its label before the
\* resolution is POINT_FOLLOW, not the result of a slope computation.
C14_FollowResolution ==
  Swept => \A pl \in Places :
    FollowCase(pl) =>
      /\ AloneAt(pl).pre = "POINT_FOLLOW"
      /\ PrevLabel(pl) = "NON_GROUND" => RefAt(pl).point_state = "NON_GROUND"
      /\ PrevLabel(pl) = "GROUND" => RefAt(pl).point_state = "GROUND"

\* a point that follows a GROUND point and ends GROUND
C14_Witness ==
  /\ Swept
  /\ \E pl \in Places :
       /\ pl[2] > 1
       /\ FollowCase(pl)
       /\ RefAt(<<pl[1], pl[2] - 1>>).point_state = "GROUND"
       /\ RefAt(pl).point_state = "GROUND"

\* C15: a point not over the global slope limit, after a NON_GROUND point
\* and with |z - non-ground average height| >= split_height_distance, never
\* stays or resolves by following: its label is NON_GROUND if local_slope -
\* prev_gnd_slope > local_slope_max_angle and GROUND otherwise.
C15_ForcedRecompute ==
  Swept => \A pl \in Places :
    RecomputeCase(pl) =>
      /\ AloneAt(pl).pre # "POINT_FOLLOW"
      /\ RefAt(pl).point_state = IF LocalSlopeExceeds(pl) THEN "NON_GROUND" ELSE "GROUND"

\* a forced point that is close to the NON_GROUND point before it and within
\* split_height_distance of the ground reference, and ends GROUND
C15_Witness ==
  /\ Swept
  /\ \E pl \in Places :
       /\ RecomputeCase(pl)
       /\ IsClose(pl)
       /\ ~GndSplit(pl)
       /\ RefAt(pl).point_state = "GROUND"

\* while a sector is swept, the locals are those of the sector swept alone
\* up to the point just processed
SweepMatches == (pc = "classify" /\ j >= 1) => sweep = SweepAfter(<<i, j>>)

\* the cluster of the points at positions a .. b of sector d
RECURSIVE ChainSums(_, _, _)
ChainSums(d, a, b) ==
  IF a > b THEN initialize
  ELSE addPoint(ChainSums(d, a, b - 1), RefAt(<<d, b>>).radius, PointAt(<<d, b>>).z)

\* positions g + 1 .. n of sector d are points that took the follow branch
\* and resolved to GROUND, after a point at g whose label before the
\* resolution is GROUND
GroundChain(d, g, n) ==
  /\ AloneAt(<<d, g>>).pre = "GROUND"
  /\ \A m \in (g + 1)..n : /\ AloneAt(<<d, m>>).pre = "POINT_FOLLOW"
                           /\ RefAt(<<d, m>>).point_state = "GROUND"

\* a cluster is another one, or another one with one point added
KeptOrAdded(after, before) ==
  \/ after = before
  \/ /\ after.point_num = before.point_num + 1
     /\ after.radius_sum >= before.radius_sum

\* C16: a point whose label before the follow resolution is GROUND resets
\* both accumulators (the ground accumulator then holds that point alone), no
\* other point resets one, and after such a point and k points that follow
\* and resolve to GROUND the ground accumulator holds those k + 1 points, the
\* ground reference is the last of them and the ground slope is the
\* accumulator's average slope.
C16_AccumulatorLifecycle ==
  /\ SweepMatches
  /\ Swept => \A pl \in Places :
       /\ IF AloneAt(pl).pre = "GROUND"
          THEN /\ SweepAfter(pl).non_ground_cluster = initialize
               /\ SweepAfter(pl).ground_cluster =
                    addPoint(initialize, RefAt(pl).radius, PointAt(pl).z)
          ELSE /\ KeptOrAdded(SweepAfter(pl).ground_cluster, SweepBefore(pl).ground_cluster)
               /\ KeptOrAdded(SweepAfter(pl).non_ground_cluster,
                              SweepBefore(pl).non_ground_cluster)
       /\ \A g \in 1..pl[2] :
            GroundChain(pl[1], g, pl[2]) =>
              /\ SweepAfter(pl).ground_cluster = ChainSums(pl[1], g, pl[2])
              /\ SweepAfter(pl).ground_cluster.point_num = pl[2] - g + 1
              /\ SweepAfter(pl).prev_gnd_point =
                   [x |-> PointAt(pl).x, y |-> PointAt(pl).y, z |-> PointAt(pl).z]
              /\ SweepAfter(pl).prev_gnd_radius = RefAt(pl).radius
              /\ SweepAfter(pl).prev_gnd_slope = getAverageSlope(ChainSums(pl[1], g, pl[2]))

\* a GROUND point and two points that follow it: the ground accumulator
\* holds the three
C16_Witness ==
  /\ Swept
  /\ \E d \in DOMAIN radial_ordered_points :
       /\ Len(radial_ordered_points[d]) >= 3
       /\ GroundChain(d, 1, 3)
       /\ SweepAfter(<<d, 3>>).ground_cluster.point_num = 3

C18_UnresolvedIsFollowPrefix ==
  Swept => \A pl \in Places :
    /\ RefAt(pl).point_state \in {"GROUND", "NON_GROUND", "POINT_FOLLOW"}
    /\ RefAt(pl).point_state = "POINT_FOLLOW"
         <=> \A m \in 1..pl[2] : FollowCase(<<pl[1], m>>)
    /\ Resolved(RefAt(pl).point_state) =>
         \A m \in pl[2]..Len(radial_ordered_points[pl[1]]) :
           Resolved(RefAt(<<pl[1], m>>).point_state)

\* a sector whose first point stays unresolved, whose second does not take
\* the follow branch and whose third takes it and is resolved
C18_Witness ==
  /\ Swept
  /\ \E d \in DOMAIN radial_ordered_points :
       /\ Len(radial_ordered_points[d]) >= 3
       /\ radial_ordered_points[d][1].point_state = "POINT_FOLLOW"
       /\ ~FollowCase(<<d, 2>>)
       /\ FollowCase(<<d, 3>>)
       /\ Resolved(radial_ordered_points[d][3].point_state)

\* the number of consecutive NON_GROUND points of sector d ending at position n
RECURSIVE TrailingObjects(_, _)
TrailingObjects(d, n) ==
  IF n = 0 \/ RefAt(<<d, n>>).point_state # "NON_GROUND" THEN 0
  ELSE 1 + TrailingObjects(d, n - 1)

\* C19: after every point the count of the non-ground accumulator is the
\* number of consecutive NON_GROUND points ending at it; at every decision
\* the accumulator is non-empty exactly when the previous label is
\* NON_GROUND; and no point follows to GROUND while it is non-empty.
C19_ObjectAccumulator ==
  /\ SweepMatches
  /\ Swept => \A pl \in Places :
       /\ SweepAfter(pl).non_ground_cluster.point_num = TrailingObjects(pl[1], pl[2])
       /\ SweepAfter(pl).non_ground_cluster =
            ChainSums(pl[1], pl[2] - TrailingObjects(pl[1], pl[2]) + 1, pl[2])
       /\ SweepBefore(pl).non_ground_cluster.point_num > 0 <=> PrevLabel(pl) = "NON_GROUND"
       /\ (FollowCase(pl) /\ RefAt(pl).point_state = "GROUND") =>
            SweepBefore(pl).non_ground_cluster.point_num = 0

\* a run of two NON_GROUND points counted, then a GROUND point that empties
\* the accumulator
C19_Witness ==
  /\ Swept
  /\ \E d \in DOMAIN radial_ordered_points :
       /\ Len(radial_ordered_points[d]) >= 3
       /\ SweepAfter(<<d, 2>>).non_ground_cluster.point_num = 2
       /\ radial_ordered_points[d][3].point_state = "GROUND"
       /\ SweepAfter(<<d, 3>>).non_ground_cluster.point_num = 0

====
